---- MODULE Spec2Model ----
(***************************************************************************)
(* Smart file organizer: the batch walk (organize_all), the single-file    *)
(* move executor (organize_file), the classifier router                    *)
(* (classify_with_ai) and the SQLite index (FileDatabase).                 *)
(*                                                                         *)
(* A path is a record [dir, name]: dir is the sequence of directory        *)
(* components, name is [dot, stem, stamps, ext], the file name             *)
(* "<.?><stem>(_<stamp>)*.<ext>".  Confidence values are hundredths.       *)
(***************************************************************************)
EXTENDS Integers, Sequences, FiniteSets, TLC

\* ------------------------------------------------------------------ bounds
MaxFiles == 3
MaxTime == 3
MaxVanish == 1
MaxRuns == 2
MaxAiFiles == 1
MaxRerunFiles == 1
MaxEvents == 2
MaxBothFiles == 1
MaxBothEvents == 1
MaxEitherFiles == 2
MaxLookupFiles == 1
MaxLoadFiles == 2
MaxDocFiles == 2

\* --------------------------------------------------------- program constants
ProbeRetries == 3
DefaultThreshold == 50
Debounce == 2

\* ------------------------------------------------------------ configuration
watch_dir == <<"w">>

\* organized_directory relative to watch_directory: the same folder
\* (in-place mode of scripts/organize.py), a sibling, or a subfolder
\* (the layout tests/test_organizer.py uses).
Placements == { <<"w">>, <<"o">>, <<"w", "_organized">> }

Thresholds == {0, DefaultThreshold}

\* category -> extensions, in the configuration's order
CategoryOrder == <<"Images", "Videos", "Documents", "Audio">>

categories ==
    [Images |-> {"jpg"}, Videos |-> {"mp4"}, Documents |-> {"pdf"}, Audio |-> {"mp3"}]

AiCategories == {"Images", "Videos", "Documents", "Audio"}

\* ------------------------------------------------------------------- paths
MkName(stem, ext) == [dot |-> FALSE, stem |-> stem, stamps |-> <<>>, ext |-> ext]

\* the None a call returns instead of a path
NoPath == [dir |-> <<>>, name |-> MkName("", "")]

DbName == MkName("file_index", "db")

HiddenName == [dot |-> TRUE, stem |-> "h", stamps |-> <<>>, ext |-> ""]

MkPath(dir, name) == [dir |-> dir, name |-> name]

\* str.lower() on an extension
Lower(ext) ==
    CASE ext = "JPG" -> "jpg"
      [] ext = "PDF" -> "pdf"
      [] OTHER -> ext

IsPrefix(s, t) == Len(s) <= Len(t) /\ SubSeq(t, 1, Len(s)) = s

RelativeTo(dir, base) == SubSeq(dir, Len(base) + 1, Len(dir))

\* every directory on the way from the root to dir, dir included
Ancestors(dir) == { SubSeq(dir, 1, n) : n \in 1..Len(dir) }

RECURSIVE FirstCategory(_, _)
FirstCategory(ext, i) ==
    IF i > Len(CategoryOrder) THEN "Others"
    ELSE IF ext \in categories[CategoryOrder[i]] THEN CategoryOrder[i]
    ELSE FirstCategory(ext, i + 1)

\* the extension compared as it is written
CategoryCaseSensitive(file_path) == FirstCategory(file_path.name.ext, 1)

get_category_by_extension(file_path) == FirstCategory(Lower(file_path.name.ext), 1)

\* f"{stem}_{timestamp}{suffix}" with timestamp = now to the second
Stamped(name, t) == [name EXCEPT !.stamps = Append(@, t)]


\* ---------------------------------------------------------- type detection
Mime(type, sub) == [type |-> type, sub |-> sub]

OctetStream == Mime("application", "octet-stream")

Mimes ==
    { Mime("image", "jpeg"), Mime("video", "mp4"), Mime("application", "pdf"),
      Mime("audio", "mpeg"), OctetStream }

is_image(mime_type) == mime_type.type = "image"

is_video(mime_type) == mime_type.type = "video"

is_audio(mime_type) == mime_type.type = "audio"

is_document(mime_type) ==
    \/ mime_type = Mime("application", "pdf")
    \/ mime_type.sub = "wordprocessingml"
    \/ mime_type.type = "text"

\* the content of a file: an identity and the MIME type libmagic finds in it
Content(id, mime_type) == [id |-> id, mime |-> mime_type]

\* FileDetector.detect: libmagic on the content, octet-stream when it raises
detect(tree, file_path) ==
    IF file_path \in DOMAIN tree THEN tree[file_path].mime ELSE OctetStream

\* -------------------------------------------------------------- classifiers
\* A classifier call ends with a result [label, confidence] or raises.
\* kind: "ok" a classification, "sentinel" a failure value the classifier
\* returns itself, "locked" the audio fallback after its retries, "raise"
\* an exception out of classify, "nomatch" no capability, "none" AI unused.
Result(label, confidence, kind) ==
    [label |-> label, confidence |-> confidence, kind |-> kind]

Raised == Result("", 0, "raise")

NotClassified == Result("not_classified", 0, "none")

Scores == {49, 50, 51}

ImageOutcomes(present) ==
    {Raised, Result("unknown", 0, "sentinel")}
        \cup (IF present THEN { Result("cat", c, "ok") : c \in Scores } ELSE {})

VideoOutcomes(present) ==
    {Raised, Result("unknown_video", 0, "sentinel")}
        \cup (IF present
              THEN { Result("cat", c, "ok") : c \in {33, 100} }
              ELSE {Result("corrupted_video", 0, "sentinel")})

MergeThreshold == 65

MergeScore == MergeThreshold + 5

\* the best keyword KeyBERT finds in the text, as candidate_topics[0]
Topics == {"report", "re:port"}

\* document_classifier.py 49-51: the characters \ / * ? : " < > | removed,
\* the ends stripped, every word capitalised, on the names that occur here
clean_filename(name) ==
    CASE name \in {"report", "re:port"} -> "Report"
      [] name = "cat" -> "Cat"
      [] name = "unknown" -> "Unknown"
      [] name = "unknown_video" -> "Unknown_Video"
      [] name = "corrupted_video" -> "Corrupted_Video"
      [] name = "not_classified" -> "Not_Classified"
      [] OTHER -> name

DocumentOutcomes(present, existing_folders) ==
    {Raised, Result("Unreadable_Docs", 0, "sentinel")}
        \cup (IF present
              THEN {Result("General_Docs", 0, "sentinel")}
                   \cup { Result(f, MergeScore, "ok") : f \in existing_folders }
                   \cup { Result(clean_filename(t), c, "ok") : t \in Topics, c \in {20, 80} }
              ELSE {})

AudioOutcomes(present) ==
    {Result("Unclassified_Audio", 0, "sentinel")}
        \cup (IF present
              THEN {Result("Unknown_Audio", 0, "sentinel"),
                    Result("Music", 50, "ok"), Result("Music", 30, "locked"),
                    Result("Podcast", 80, "ok")}
              ELSE {Result("File_Not_Found", 0, "sentinel")})

\* -------------------------------------------------------- classifier router
Route(file_path, mime_type) ==
    IF is_image(mime_type) THEN "image"
    ELSE IF is_video(mime_type) THEN "video"
    ELSE IF is_document(mime_type)
            \/ get_category_by_extension(file_path) = "Documents" THEN "document"
    ELSE IF is_audio(mime_type) THEN "audio"
    ELSE "none"

Capability(cap, present, existing_folders) ==
    CASE cap = "image" -> ImageOutcomes(present)
      [] cap = "video" -> VideoOutcomes(present)
      [] cap = "document" -> DocumentOutcomes(present, existing_folders)
      [] cap = "audio" -> AudioOutcomes(present)
      [] OTHER -> {}

\* the classifiers whose classify calls load_model outside its try
\* (image_classifier.py 29-30, video_classifier.py 12-13)
Loaders == {"image", "video"}

\* what classify can give with the models in have loaded: load_model is
\* called, and can fail, only while the model is None
CanReturn(cap, r, have) ==
    /\ (cap \in Loaders /\ cap \in have) => r.kind # "raise"
    /\ (cap = "audio" /\ cap \in have) => r.label # "Unclassified_Audio"

\* the models loaded after the call: a load that fails leaves the model None
LoadedAfter(cap, r, have) ==
    IF cap = "none" \/ r.kind = "raise" THEN have
    ELSE IF cap = "audio" /\ r.label = "Unclassified_Audio" THEN have
    ELSE have \cup {cap}

\* the load_model calls that raised, counted per classifier
LoadErrorsAfter(cap, r, errors) ==
    IF cap \in Loaders /\ r.kind = "raise"
    THEN [errors EXCEPT ![cap] = @ + 1]
    ELSE errors

\* the exception let through
AbsorbNothing(r) == r

\* the except clause and the final return of classify_with_ai
Absorb(r) == IF r.kind = "raise" THEN Result("unknown", 0, "raise") ELSE r

classify_with_ai(file_path, mime_type, present, existing_folders) ==
    IF Route(file_path, mime_type) = "none"
    THEN {Result("unknown", 0, "nomatch")}
    ELSE { Absorb(r) :
             r \in Capability(Route(file_path, mime_type), present, existing_folders) }

\* ----------------------------------------------------- destination resolver
\* AI applied to every category
ShouldUseAiAnyCategory(flag, category) == flag

\* line 113
ShouldUseAi(flag, category) == flag /\ category \in AiCategories

\* the threshold test written with > instead of >=
DestFolderStrict(root, category, should_use_ai, ai_result, confidence_threshold) ==
    IF should_use_ai /\ category = "Documents"
    THEN root \o <<category, ai_result.label>>
    ELSE IF should_use_ai /\ ai_result.confidence > confidence_threshold
    THEN root \o <<category, ai_result.label>>
    ELSE root \o <<category>>

\* the label used for every category, whatever the confidence
DestFolderAlwaysLabel(root, category, should_use_ai, ai_result, confidence_threshold) ==
    IF should_use_ai
    THEN root \o <<category, ai_result.label>>
    ELSE root \o <<category>>

DestFolder(root, category, should_use_ai, ai_result, confidence_threshold) ==
    IF should_use_ai /\ category = "Documents"
    THEN root \o <<category, ai_result.label>>
    ELSE IF should_use_ai /\ ai_result.confidence >= confidence_threshold
    THEN root \o <<category, ai_result.label>>
    ELSE root \o <<category>>

\* no check for an existing destination
DestPathNoStamp(dest_folder, name, taken, t) == MkPath(dest_folder, name)

\* lines 134-137: the plain name, or the stamped one when it is taken
DestPath(dest_folder, name, taken, t) ==
    IF MkPath(dest_folder, name) \in taken
    THEN MkPath(dest_folder, Stamped(name, t))
    ELSE MkPath(dest_folder, name)

\* ------------------------------------------------------------------- index
\* the label and the confidence left at the defaults of lines 79-80
RowWithoutResult(id, file_path, original_path, mime_type, category, ai_result) ==
    [id |-> id, file_path |-> file_path, original_path |-> original_path,
     mime_type |-> mime_type, category |-> category,
     ai_label |-> "", confidence |-> 0]

\* the columns of the files table, without size, dates and metadata
Row(id, file_path, original_path, mime_type, category, ai_result) ==
    [id |-> id, file_path |-> file_path, original_path |-> original_path,
     mime_type |-> mime_type, category |-> category,
     ai_label |-> ai_result.label, confidence |-> ai_result.confidence]

\* a plain INSERT into a table without the UNIQUE constraint
InsertOnly(rows, row) == rows \cup {row}

\* INSERT OR REPLACE under UNIQUE(file_path)
InsertOrReplace(rows, row) ==
    { r \in rows : r.file_path # row.file_path } \cup {row}

\* -------------------------------------------------------------- batch walk
category_folders ==
    { CategoryOrder[i] : i \in 1..Len(CategoryOrder) } \cup {"Others", "Unreadable_Docs"}

InCategoryFolder(dir) ==
    /\ RelativeTo(dir, watch_dir) # <<>>
    /\ RelativeTo(dir, watch_dir)[1] \in category_folders

\* lines 175-197: the loose files under the watched root
Discover(tree) ==
    { p \in DOMAIN tree :
        /\ IsPrefix(watch_dir, p.dir)
        /\ ~InCategoryFolder(p.dir)
        /\ ~p.name.dot
        /\ p.name # DbName }


\* ------------------------------------------------------------------- state
VARIABLES
    fs,             \* path -> content id, the files that exist
    dirs,           \* the directories that exist
    now,            \* the wall clock, in seconds
    db,             \* rows of the files table
    nextId,         \* AUTOINCREMENT counter of the files table
    log,            \* what was printed
    organized_dir,  \* config.organized_dir
    threshold,      \* config.confidence_threshold
    use_ai,         \* the use_ai argument of organize_all
    max_runs,       \* how many times the script is run
    pc,             \* position in organize_all / organize_file
    run,            \* which organize_all call this is
    files,          \* organize_all: discovered files not yet processed
    found,          \* organize_all: len(files) after the walk
    success_count,
    error_count,
    cur,            \* the locals of the running organize_file call
    last,           \* the organize_file call that finished last
    moves,          \* the moves done so far: [run, id, src, dst]
    prev_all_moved, \* the previous organize_all moved every file it found
    vanished,       \* number of source files deleted from outside
    watching,       \* FileWatcher: "none" no watcher was made, or its observer is
                    \* "off", "on", "stopping", "stopped"
    queue,          \* the observer's event queue: create events not yet dispatched
    wpc,            \* position of the observer's dispatch thread in on_created
    wev,            \* the event on_created is handling
    wcur,           \* the locals of the organize_file call of on_created
    handled,        \* the events on_created has finished with
    created,        \* number of files created under the watched root
    search,         \* what the last run of the search command ended with
    loaded,         \* the classifiers whose model is not None
    load_errors,    \* classifier -> load_model calls that raised
    unclosed        \* the index operations that returned with the connection
                    \* they opened not closed

vars ==
    <<fs, dirs, now, db, nextId, log, organized_dir, threshold, use_ai, max_runs, pc, run,
      files, found, success_count, error_count, cur, last, moves, prev_all_moved,
      vanished, watching, queue, wpc, wev, wcur, handled, created, search, loaded,
      load_errors, unclosed>>

config == <<organized_dir, threshold, use_ai, max_runs>>

\* what only the watcher and the search command set
aside == <<watching, queue, wpc, wev, wcur, handled, created, search>>

\* what only a classifier call sets
models == <<loaded, load_errors>>

\* what only a classifier call or an index operation sets
held == <<models, unclosed>>

\* what only the walk of organize_all sets
walked == <<run, found, prev_all_moved>>

Msg(kind, name, n) == [kind |-> kind, name |-> name, n |-> n]

NoName == MkName("", "")

Call(r, outcome, ret, frame) ==
    [run |-> r, outcome |-> outcome, ret |-> ret, frame |-> frame]

\* the locals of organize_file, and about the call: id the content of the
\* file, probes the open() attempts made, move_calls the shutil.move calls
\* made, gone whether the file was deleted under the call, fault the failure
\* the environment injected other than a lock or a deletion, waits the
\* seconds slept after each failed open(), capability the classifier
\* classify_with_ai called, existing_folders what it passed to the document
\* classifier
NoFrame ==
    [file_path |-> NoPath, id |-> 0, retries |-> 0, probes |-> 0,
     mime_type |-> OctetStream, category |-> "", should_use_ai |-> FALSE,
     ai_result |-> NotClassified, dest_folder |-> <<>>, dest_path |-> NoPath,
     move_calls |-> 0, gone |-> FALSE, fault |-> "none",
     waits |-> <<>>, capability |-> "none", existing_folders |-> {}]

MoveRec(r, seq, id, src, dst) ==
    [run |-> r, seq |-> seq, id |-> id, src |-> src, dst |-> dst]

NoCall == Call(0, "none", NoPath, NoFrame)

\* a create event: the path, the time it was queued, and about its handling:
\* begun the time on_created called organize_file (-1: not called), late
\* whether stop() had been called by then
Event(path, at) == [path |-> path, at |-> at, begun |-> -1, late |-> FALSE]

NoEvent == Event(NoPath, 0)

\* how on_created ended for one event
Handled(ev, outcome, ret, frame) ==
    [ev |-> ev, outcome |-> outcome, ret |-> ret, frame |-> frame]

\* the end of one run of the search command
Searched(query, outcome, rows) == [query |-> query, outcome |-> outcome, rows |-> rows]

NoSearch == Searched("", "none", {})

\* ---------------------------------------------------------- initial states
SrcDirs == << <<"w">>, <<"w", "s1">>, <<"w", "s2">>, <<"w", "s3">> >>

\* a kind of file: a name and what its content is
Kind(name, mime_type) == [name |-> name, mime |-> mime_type]

PlainKinds == { Kind(MkName("a", "xyz"), OctetStream), Kind(HiddenName, OctetStream) }

MediaKinds ==
    { Kind(MkName("a", "jpg"), Mime("image", "jpeg")),
      Kind(MkName("a", "mp4"), Mime("video", "mp4")),
      Kind(MkName("a", "mp3"), Mime("audio", "mpeg")),
      Kind(MkName("a", "pdf"), Mime("application", "pdf")) }

\* files whose content is not what the extension says
OddKinds ==
    { Kind(MkName("a", "jpg"), Mime("application", "pdf")),
      Kind(MkName("a", "pdf"), OctetStream),
      Kind(MkName("a", "mp3"), OctetStream),
      Kind(MkName("a", "xyz"), Mime("image", "jpeg")) }

\* extensions in upper case, and a name without extension
CaseKinds ==
    { Kind(MkName("a", "JPG"), Mime("image", "jpeg")),
      Kind(MkName("a", "PDF"), Mime("application", "pdf")),
      Kind(MkName("a", ""), OctetStream) }

\* an extension of no category on an image
OtherKinds == { Kind(MkName("a", "xyz"), Mime("image", "jpeg")) }

\* file i lies in the i-th source folder; its content id is i
Layouts(kinds, n) == UNION { [1..k -> kinds] : k \in 1..n }

LayoutTree(layout, root) ==
    [p \in { MkPath(SrcDirs[i], layout[i].name) : i \in DOMAIN layout }
            \cup {MkPath(root, DbName)}
       |-> IF p = MkPath(root, DbName) THEN Content(0, OctetStream)
           ELSE LET i == CHOOSE j \in DOMAIN layout : p = MkPath(SrcDirs[j], layout[j].name)
                IN Content(i, layout[i].mime)]

\* the state after SmartFileOrganizer(config): the output root and the index
\* file exist, nothing is organized yet
InitWith(placements, thresholds, flags, layouts, runs, watchers) ==
    /\ max_runs = runs
    /\ organized_dir \in placements
    /\ threshold \in thresholds
    /\ use_ai \in flags
    /\ \E layout \in layouts :
          /\ fs = LayoutTree(layout, organized_dir)
          /\ dirs = UNION { Ancestors(SrcDirs[i]) : i \in DOMAIN layout }
                        \cup Ancestors(organized_dir)
    /\ now = 0
    /\ db = {}
    /\ nextId = 1
    /\ log = {}
    /\ pc = "idle"
    /\ run = 0
    /\ files = {}
    /\ found = 0
    /\ success_count = 0
    /\ error_count = 0
    /\ cur = NoFrame
    /\ last = NoCall
    /\ moves = {}
    /\ prev_all_moved = FALSE
    /\ vanished = 0
    /\ watching \in watchers
    /\ queue = <<>>
    /\ wpc = "idle"
    /\ wev = NoEvent
    /\ wcur = NoFrame
    /\ handled = {}
    /\ created = 0
    /\ search = NoSearch
    /\ loaded = {}
    /\ load_errors = [c \in Loaders |-> 0]
    /\ unclosed = {}

\* one run without AI, organizing in place as organize_all is written to; a
\* single run goes the same way wherever the output root lies, so the
\* separate root is left to InitAi and the subfolder placement to InitRerun
Init ==
    InitWith({<<"w">>}, {DefaultThreshold}, {FALSE},
             Layouts(PlainKinds, MaxFiles), 1, {"none"})

\* one run with AI over files of every category
InitAi ==
    InitWith({<<"o">>}, Thresholds, {TRUE}, Layouts(MediaKinds \cup OddKinds, MaxAiFiles), 1,
             {"none"})

\* one run, with AI or without, over extensions of every kind
InitLookup ==
    InitWith({<<"o">>}, {DefaultThreshold}, BOOLEAN,
             Layouts(MediaKinds \cup CaseKinds \cup OtherKinds, MaxLookupFiles), 1, {"none"})

\* two files for the same classifier, or for two of them
LoadKinds ==
    { Kind(MkName("a", "jpg"), Mime("image", "jpeg")),
      Kind(MkName("a", "mp3"), Mime("audio", "mpeg")) }

\* one run with AI over files that share a classifier
InitLoad ==
    InitWith({<<"o">>}, {DefaultThreshold}, {TRUE}, Layouts(LoadKinds, MaxLoadFiles), 1,
             {"none"})

\* a file of each classifier, and a recording saved under a document name
RouteKinds == MediaKinds \cup { Kind(MkName("a", "pdf"), Mime("audio", "mpeg")) }

\* one run with AI over them
InitRoute ==
    InitWith({<<"o">>}, {DefaultThreshold}, {TRUE}, Layouts(RouteKinds, MaxAiFiles), 1,
             {"none"})

DocKinds == { Kind(MkName("a", "pdf"), Mime("application", "pdf")) }

\* one run with AI over documents
InitDocs ==
    InitWith({<<"o">>}, {DefaultThreshold}, {TRUE}, Layouts(DocKinds, MaxDocFiles), 1,
             {"none"})

\* as many files as can be probed to the end within the time the clock runs
LiveFiles == MaxTime \div ProbeRetries

\* one run, with AI or without, over files of every category
InitLive ==
    InitWith({<<"w">>, <<"o">>}, {DefaultThreshold}, BOOLEAN,
             Layouts(PlainKinds \cup MediaKinds, LiveFiles), 1, {"none"})

\* the script run again over the same root
InitRerun ==
    InitWith(Placements, {DefaultThreshold}, {FALSE}, Layouts(PlainKinds, MaxRerunFiles),
             MaxRuns, {"none"})

\* ------------------------------------------------------------- file system
Exists(p) == p \in DOMAIN fs

\* shutil.move: os.rename, which replaces an existing destination file
MoveFile(tree, src, dst) ==
    [p \in (DOMAIN tree \ {src}) \cup {dst} |-> IF p = dst THEN tree[src] ELSE tree[p]]

Remove(tree, p) == [q \in DOMAIN tree \ {p} |-> tree[q]]

\* the list read once, when the organizer is made and nothing is organized
DocFoldersAtStart == {}

\* lines 48-53
get_existing_doc_folders ==
    { d[Len(d)] : d \in { e \in dirs : /\ Len(e) = Len(organized_dir) + 2
                                        /\ IsPrefix(organized_dir \o <<"Documents">>, e) } }

\* ------------------------------------------------------------ organize_all
Walk ==
    /\ pc \in {"idle", "done"}
    /\ run < max_runs
    /\ run' = run + 1
    /\ found' = Cardinality(Discover(fs))
    /\ prev_all_moved' = (run > 0 /\ found > 0 /\ success_count = found)
    /\ files' = Discover(fs)
    /\ success_count' = 0
    /\ error_count' = 0
    /\ IF Discover(fs) = {}
       THEN /\ log' = log \cup {Msg("no_files", NoName, 0)}
            /\ pc' = "done"
       ELSE /\ log' = log \cup {Msg("found", NoName, Cardinality(Discover(fs)))}
            /\ pc' = "loop"
    /\ UNCHANGED <<fs, dirs, now, db, nextId, config, aside, held, cur, last, moves, vanished>>

\* os.walk is top-down: the files of a folder come before the files of the
\* folders below it; the order among sibling folders is the file system's
WalkFirst(todo) ==
    { p \in todo : \A q \in todo : ~(IsPrefix(q.dir, p.dir) /\ q.dir # p.dir) }

LoopNext ==
    /\ pc = "loop"
    /\ \E p \in WalkFirst(files) :
          /\ files' = files \ {p}
          /\ cur' = [NoFrame EXCEPT !.file_path = p,
                                    !.id = IF Exists(p) THEN fs[p].id ELSE 0,
                                    !.retries = ProbeRetries]
    /\ pc' = "probe_exists"
    /\ UNCHANGED <<fs, dirs, now, db, nextId, log, config, aside, held, walked,
                   success_count, error_count, last, moves, vanished>>

LoopEnd ==
    /\ pc = "loop"
    /\ files = {}
    /\ log' = log \cup {Msg("summary", NoName, success_count)}
    /\ pc' = "done"
    /\ UNCHANGED <<fs, dirs, now, db, nextId, config, aside, held, walked, files,
                   success_count, error_count, cur, last, moves, vanished>>

\* lines 209-217: what organize_all does with the end of one organize_file
\* call; outcome "raised" is an exception out of organize_file
Finish(frame, outcome, ret, msgs) ==
    /\ pc' = "loop"
    /\ cur' = NoFrame
    /\ success_count' = IF ret # NoPath THEN success_count + 1 ELSE success_count
    /\ error_count' = IF outcome = "raised" THEN error_count + 1 ELSE error_count
    /\ log' = log \cup msgs
                  \cup (IF outcome = "raised"
                        THEN {Msg("error", frame.file_path.name, 0)} ELSE {})
    /\ last' = Call(run, outcome, ret, frame)
    /\ UNCHANGED moves

\* ------------------------------------------------------------ environment
InCall == pc \in {"probe_exists", "probe_open", "classify", "resolve", "move", "record"}

\* another process deletes the file that is being organized
Vanish ==
    /\ InCall
    /\ Exists(cur.file_path)
    /\ vanished < MaxVanish
    /\ vanished' = vanished + 1
    /\ fs' = Remove(fs, cur.file_path)
    /\ cur' = [cur EXCEPT !.gone = TRUE]
    /\ UNCHANGED <<dirs, now, db, nextId, log, config, aside, held, pc, walked, files,
                   success_count, error_count, last, moves>>

\* a second passes; the clock is read at line 136
Tick ==
    /\ pc = "resolve"
    /\ now < MaxTime
    /\ now' = now + 1
    /\ UNCHANGED <<fs, dirs, db, nextId, log, config, aside, held, pc, walked, files,
                   success_count, error_count, cur, last, moves, vanished>>


\* ----------------------------------------------------------- organize_file
\* line 98: time.sleep(1) after the failed open() number attempt
ProbeWait(attempt) == 1

\* while True
ProbeAlways(retries) == TRUE

\* line 87: while retries > 0
ProbeAgain(retries) == retries > 0

\* the check after the loop left out
ProbeNeverExhausted(retries) == FALSE

\* line 101: if retries == 0
ProbeExhausted(retries) == retries = 0

\* lines 88-90
ProbeExists ==
    /\ pc = "probe_exists"
    /\ IF ~Exists(cur.file_path)
       THEN /\ Finish(cur, "vanished", NoPath, {})
            /\ UNCHANGED <<fs, dirs, now, db, nextId, config, aside, held, walked, files, vanished>>
       ELSE /\ pc' = "probe_open"
            /\ UNCHANGED <<fs, dirs, now, db, nextId, log, config, aside, held, walked, files,
                           success_count, error_count, cur, last, moves, vanished>>

\* lines 92-104: open() succeeds, or raises because the file is locked or gone;
\* after a failure the call sleeps one second
ProbeOpen ==
    /\ pc = "probe_open"
    /\ \E locked \in BOOLEAN :
          IF Exists(cur.file_path) /\ ~locked
          THEN /\ cur' = [cur EXCEPT !.probes = @ + 1]
               /\ pc' = "classify"
               /\ UNCHANGED <<fs, dirs, now, db, nextId, log, config, aside, held, walked, files,
                              success_count, error_count, last, moves, vanished>>
          ELSE /\ now < MaxTime
               /\ now' = now + ProbeWait(cur.probes + 1)
               /\ LET frame == [cur EXCEPT !.probes = @ + 1, !.retries = @ - 1,
                                           !.waits = Append(@, ProbeWait(cur.probes + 1))] IN
                    IF ProbeAgain(frame.retries)
                    THEN /\ cur' = frame
                         /\ pc' = "probe_exists"
                         /\ UNCHANGED <<log, success_count, error_count, last, moves>>
                    ELSE IF ProbeExhausted(frame.retries)
                    THEN Finish(frame, "skipped", NoPath,
                                {Msg("skipped_locked", frame.file_path.name, 0)})
                    ELSE /\ cur' = frame
                         /\ pc' = "classify"
                         /\ UNCHANGED <<log, success_count, error_count, last, moves>>
               /\ UNCHANGED <<fs, dirs, db, nextId, config, aside, held, walked, files, vanished>>

AiMsgs(name, ai_result) ==
    IF ai_result.kind = "raise" THEN {Msg("ai_error", name, 0)} ELSE {}

\* lines 106-131: detect, categorise, classify, choose and create the folder;
\* mkdir raises when the folder cannot be created
Classify ==
    /\ pc = "classify"
    /\ \E mkdir_ok \in BOOLEAN :
        LET mime_type == detect(fs, cur.file_path)
            category == get_category_by_extension(cur.file_path)
            should_use_ai == ShouldUseAi(use_ai, category)
            capability == IF should_use_ai THEN Route(cur.file_path, mime_type) ELSE "none"
            existing_folders == IF capability = "document"
                                THEN get_existing_doc_folders ELSE {}
        IN \E ai_result \in
                 (IF should_use_ai
                  THEN { r \in classify_with_ai(cur.file_path, mime_type,
                                                Exists(cur.file_path), existing_folders) :
                           CanReturn(capability, r, loaded) }
                  ELSE {NotClassified}) :
             LET frame == [cur EXCEPT
                             !.mime_type = mime_type,
                             !.category = category,
                             !.should_use_ai = should_use_ai,
                             !.ai_result = ai_result,
                             !.capability = capability,
                             !.existing_folders = existing_folders,
                             !.dest_folder = DestFolder(organized_dir, category,
                                                        should_use_ai, ai_result, threshold)]
             IN /\ IF mkdir_ok
                   THEN /\ dirs' = dirs \cup Ancestors(frame.dest_folder)
                        /\ cur' = frame
                        /\ pc' = "resolve"
                        /\ log' = log \cup AiMsgs(frame.file_path.name, ai_result)
                        /\ UNCHANGED <<success_count, error_count, last, moves>>
                   ELSE /\ Finish([frame EXCEPT !.fault = "mkdir"], "raised", NoPath,
                                  AiMsgs(frame.file_path.name, ai_result))
                        /\ UNCHANGED dirs
                /\ loaded' = LoadedAfter(capability, ai_result, loaded)
                /\ load_errors' = LoadErrorsAfter(capability, ai_result, load_errors)
    /\ UNCHANGED <<fs, now, db, nextId, config, aside, unclosed, walked, files, vanished>>

\* lines 133-137
Resolve ==
    /\ pc = "resolve"
    /\ cur' = [cur EXCEPT !.dest_path =
                   DestPath(cur.dest_folder, cur.file_path.name, DOMAIN fs, now)]
    /\ pc' = "move"
    /\ UNCHANGED <<fs, dirs, now, db, nextId, log, config, aside, held, walked, files,
                   success_count, error_count, last, moves, vanished>>

\* shutil.move outside any try
MoveErrorUncaught == "raised"

\* lines 142-144: except OSError -> report, return None
MoveErrorOutcome == "failed"

\* the report without the file name
MoveErrorAnonymous(name) == {Msg("move_failed", NoName, 0)}

MoveErrorMsgs(name) == {Msg("move_failed", name, 0)}

\* lines 139-144
Move ==
    /\ pc = "move"
    /\ \E os_error \in BOOLEAN :
        LET frame == [cur EXCEPT !.move_calls = @ + 1,
                                 !.fault = IF os_error /\ Exists(cur.file_path)
                                           THEN "move" ELSE @]
        IN IF ~Exists(cur.file_path) \/ os_error
           THEN /\ Finish(frame, MoveErrorOutcome, NoPath,
                          MoveErrorMsgs(frame.file_path.name))
                /\ UNCHANGED fs
           ELSE /\ fs' = MoveFile(fs, cur.file_path, cur.dest_path)
                /\ moves' = moves \cup {MoveRec(run, Cardinality(moves) + 1, cur.id,
                                                 cur.file_path, cur.dest_path)}
                /\ cur' = frame
                /\ pc' = "record"
                /\ UNCHANGED <<log, success_count, error_count, last>>
    /\ UNCHANGED <<dirs, now, db, nextId, config, aside, held, walked, files, vanished>>

\* lines 159-161: except Exception: pass, then return dest_path
RecordErrorOutcome == "unrecorded"

\* return None from the except clause
RecordErrorReturnsNone(dest_path) == NoPath

RecordErrorReturn(dest_path) == dest_path

\* database.py 49-90: the insert commits and conn.close() is reached, or
\* sqlite raises after connect() and insert_file prints the failure, leaving
\* the connection to the interpreter's finalizer
insert_file(row, ok) ==
    IF ok
    THEN /\ db' = InsertOrReplace(db, row)
         /\ nextId' = nextId + 1
         /\ UNCHANGED unclosed
    ELSE /\ UNCHANGED <<db, nextId>>
         /\ unclosed' = unclosed \cup {"insert_file"}

\* lines 146-163
Record ==
    /\ pc = "record"
    /\ \E result \in {"ok", "db_error", "size_error"} :
          CASE result = "ok" ->
                 /\ insert_file(Row(nextId, cur.dest_path, cur.file_path, cur.mime_type,
                                    cur.category, cur.ai_result), TRUE)
                 /\ Finish(cur, "recorded", cur.dest_path, {})
            [] result = "db_error" ->
                 /\ insert_file(Row(nextId, cur.dest_path, cur.file_path, cur.mime_type,
                                    cur.category, cur.ai_result), FALSE)
                 /\ Finish([cur EXCEPT !.fault = "db"], "unrecorded", cur.dest_path,
                           {Msg("db_failed", cur.file_path.name, 0)})
            [] result = "size_error" ->
                 /\ UNCHANGED <<db, nextId, unclosed>>
                 /\ Finish([cur EXCEPT !.fault = "size"], RecordErrorOutcome,
                           RecordErrorReturn(cur.dest_path), {})
    /\ UNCHANGED <<fs, dirs, now, config, aside, models, walked, files, vanished>>

\* ------------------------------------------------------------ file watcher
\* what the batch run sets
batch ==
    <<pc, run, files, found, success_count, error_count, cur, last, prev_all_moved,
      max_runs>>

\* the folders new files are created in, and the files that get created
NewDirs == << <<"w", "n1">>, <<"w", "n2">>, <<"w", "n3">>, <<"w", "n4">> >>

WatchKinds == { Kind(MkName("a", "xyz"), OctetStream) }

\* FileWatcher.start, lines 66-74: schedule the handler and start the observer
Start ==
    /\ watching = "off"
    /\ watching' = "on"
    /\ log' = log \cup {Msg("watching", NoName, 0)}
    /\ UNCHANGED <<fs, dirs, now, db, nextId, organized_dir, threshold, use_ai, batch, held,
                   moves, vanished, queue, wpc, wev, wcur, handled, created, search>>

\* a file appears under the watched root; the running observer queues its
\* create event
Create(max_events, kinds) ==
    /\ watching = "on"
    /\ created < max_events
    /\ \E kind \in kinds :
          LET p == MkPath(NewDirs[created + 1], kind.name) IN
            /\ fs' = [q \in DOMAIN fs \cup {p} |->
                        IF q = p THEN Content(10 + created + 1, kind.mime) ELSE fs[q]]
            /\ dirs' = dirs \cup Ancestors(p.dir)
            /\ queue' = Append(queue, Event(p, now))
    /\ created' = created + 1
    /\ UNCHANGED <<now, db, nextId, log, organized_dir, threshold, use_ai, batch, held,
                   moves, vanished, watching, wpc, wev, wcur, handled, search>>

\* the file of a create event is removed again before its handler looks at it
Withdraw ==
    /\ wpc = "debounce"
    /\ Exists(wev.path)
    /\ vanished < MaxVanish
    /\ vanished' = vanished + 1
    /\ fs' = Remove(fs, wev.path)
    /\ UNCHANGED <<dirs, now, db, nextId, log, organized_dir, threshold, use_ai, batch, held,
                   moves, watching, queue, wpc, wev, wcur, handled, created, search>>

\* the observer's dispatch thread takes the next event and calls on_created,
\* lines 33-44: the event passes the filters and the handler starts its sleep
Dispatch ==
    /\ watching = "on"
    /\ wpc = "idle"
    /\ queue # <<>>
    /\ wev' = Head(queue)
    /\ queue' = Tail(queue)
    /\ wpc' = "debounce"
    /\ UNCHANGED <<fs, dirs, now, db, nextId, log, organized_dir, threshold, use_ai,
                   batch, held, moves, vanished, watching, wcur, handled, created, search>>

\* lines 51-56 without the except clause: the exception ends the thread
OnCreatedEndUncaught(returned_path) == IF returned_path THEN "idle" ELSE "crashed"

\* where the dispatch thread is after lines 51-56: on_created has returned,
\* whether organize_file gave a path or not
OnCreatedEnd(returned_path) == "idle"

\* the check of line 46 left out
DroppedNever(present) == FALSE

\* lines 46-47: if not file_path.exists(): return
Dropped(present) == ~present

\* lines 44-52: time.sleep(debounce) returns; the event is dropped, or the
\* file is announced and organize_file(file_path, use_ai=True) is called
Wake ==
    /\ wpc = "debounce"
    /\ now' = now + Debounce
    /\ IF Dropped(Exists(wev.path))
       THEN /\ handled' = handled \cup {Handled(wev, "dropped", NoPath, NoFrame)}
            /\ wev' = NoEvent
            /\ wpc' = "idle"
            /\ UNCHANGED <<log, wcur>>
       ELSE /\ wev' = [wev EXCEPT !.begun = now', !.late = (watching # "on")]
            /\ wcur' = [NoFrame EXCEPT !.file_path = wev.path,
                                       !.id = IF Exists(wev.path) THEN fs[wev.path].id ELSE 0,
                                       !.retries = ProbeRetries]
            /\ wpc' = "w_probe_exists"
            /\ log' = log \cup {Msg("new_file", wev.path.name, 0)}
            /\ UNCHANGED handled
    /\ UNCHANGED <<fs, dirs, db, nextId, organized_dir, threshold, use_ai, batch, held,
                   moves, vanished, watching, queue, created, search>>

\* lines 52-56: organize_file has returned or raised; a None makes
\* new_path.relative_to raise, and except Exception reports either failure
WFinish(frame, outcome, ret, msgs) ==
    /\ wpc' = OnCreatedEnd(ret # NoPath)
    /\ wcur' = NoFrame
    /\ wev' = NoEvent
    /\ handled' = handled \cup {Handled(wev, outcome, ret, frame)}
    /\ log' = log \cup msgs
                  \cup {IF ret # NoPath
                        THEN Msg("organized_to", ret.name, 0)
                        ELSE Msg("watch_error", frame.file_path.name, 0)}

\* what no step of the organize_file call of on_created sets
wfixed ==
    <<organized_dir, threshold, use_ai, batch, vanished, watching, queue, created, search>>

\* organizer.py lines 88-90, in the dispatch thread
W_ProbeExists ==
    /\ wpc = "w_probe_exists"
    /\ IF ~Exists(wcur.file_path)
       THEN WFinish(wcur, "vanished", NoPath, {})
       ELSE /\ wpc' = "w_probe_open"
            /\ UNCHANGED <<log, wev, wcur, handled>>
    /\ UNCHANGED <<fs, dirs, now, db, nextId, moves, wfixed, held>>

\* organizer.py lines 92-104, in the dispatch thread
W_ProbeOpen ==
    /\ wpc = "w_probe_open"
    /\ \E locked \in BOOLEAN :
          IF Exists(wcur.file_path) /\ ~locked
          THEN /\ wcur' = [wcur EXCEPT !.probes = @ + 1]
               /\ wpc' = "w_classify"
               /\ UNCHANGED <<now, log, wev, handled>>
          ELSE /\ now' = now + ProbeWait(wcur.probes + 1)
               /\ LET frame == [wcur EXCEPT !.probes = @ + 1, !.retries = @ - 1,
                                            !.waits = Append(@, ProbeWait(wcur.probes + 1))] IN
                    IF ProbeAgain(frame.retries)
                    THEN /\ wcur' = frame
                         /\ wpc' = "w_probe_exists"
                         /\ UNCHANGED <<log, wev, handled>>
                    ELSE IF ProbeExhausted(frame.retries)
                    THEN WFinish(frame, "skipped", NoPath,
                                 {Msg("skipped_locked", frame.file_path.name, 0)})
                    ELSE /\ wcur' = frame
                         /\ wpc' = "w_classify"
                         /\ UNCHANGED <<log, wev, handled>>
    /\ UNCHANGED <<fs, dirs, db, nextId, moves, wfixed, held>>

\* organizer.py lines 106-131 with use_ai = True (watcher.py line 52)
W_Classify ==
    /\ wpc = "w_classify"
    /\ \E mkdir_ok \in BOOLEAN :
        LET mime_type == detect(fs, wcur.file_path)
            category == get_category_by_extension(wcur.file_path)
            should_use_ai == ShouldUseAi(TRUE, category)
            capability == IF should_use_ai THEN Route(wcur.file_path, mime_type) ELSE "none"
            existing_folders == IF capability = "document"
                                THEN get_existing_doc_folders ELSE {}
        IN \E ai_result \in
                 (IF should_use_ai
                  THEN { r \in classify_with_ai(wcur.file_path, mime_type,
                                                Exists(wcur.file_path), existing_folders) :
                           CanReturn(capability, r, loaded) }
                  ELSE {NotClassified}) :
             LET frame == [wcur EXCEPT
                             !.mime_type = mime_type,
                             !.category = category,
                             !.should_use_ai = should_use_ai,
                             !.ai_result = ai_result,
                             !.capability = capability,
                             !.existing_folders = existing_folders,
                             !.dest_folder = DestFolder(organized_dir, category,
                                                        should_use_ai, ai_result, threshold)]
             IN /\ IF mkdir_ok
                   THEN /\ dirs' = dirs \cup Ancestors(frame.dest_folder)
                        /\ wcur' = frame
                        /\ wpc' = "w_resolve"
                        /\ log' = log \cup AiMsgs(frame.file_path.name, ai_result)
                        /\ UNCHANGED <<wev, handled>>
                   ELSE /\ WFinish([frame EXCEPT !.fault = "mkdir"], "raised", NoPath,
                                   AiMsgs(frame.file_path.name, ai_result))
                        /\ UNCHANGED dirs
                /\ loaded' = LoadedAfter(capability, ai_result, loaded)
                /\ load_errors' = LoadErrorsAfter(capability, ai_result, load_errors)
    /\ UNCHANGED <<fs, now, db, nextId, moves, wfixed, unclosed>>

\* organizer.py lines 133-137, in the dispatch thread
W_Resolve ==
    /\ wpc = "w_resolve"
    /\ wcur' = [wcur EXCEPT !.dest_path =
                    DestPath(wcur.dest_folder, wcur.file_path.name, DOMAIN fs, now)]
    /\ wpc' = "w_move"
    /\ UNCHANGED <<fs, dirs, now, db, nextId, log, moves, wev, handled, wfixed, held>>

\* organizer.py lines 139-144, in the dispatch thread
W_Move ==
    /\ wpc = "w_move"
    /\ \E os_error \in BOOLEAN :
        LET frame == [wcur EXCEPT !.move_calls = @ + 1,
                                  !.fault = IF os_error /\ Exists(wcur.file_path)
                                            THEN "move" ELSE @]
        IN IF ~Exists(wcur.file_path) \/ os_error
           THEN /\ WFinish(frame, MoveErrorOutcome, NoPath,
                           MoveErrorMsgs(frame.file_path.name))
                /\ UNCHANGED <<fs, moves>>
           ELSE /\ fs' = MoveFile(fs, wcur.file_path, wcur.dest_path)
                /\ moves' = moves \cup {MoveRec(0, Cardinality(moves) + 1, wcur.id,
                                                 wcur.file_path, wcur.dest_path)}
                /\ wcur' = frame
                /\ wpc' = "w_record"
                /\ UNCHANGED <<log, wev, handled>>
    /\ UNCHANGED <<dirs, now, db, nextId, wfixed, held>>

\* organizer.py lines 146-163, in the dispatch thread
W_Record ==
    /\ wpc = "w_record"
    /\ \E result \in {"ok", "db_error", "size_error"} :
          CASE result = "ok" ->
                 /\ insert_file(Row(nextId, wcur.dest_path, wcur.file_path, wcur.mime_type,
                                    wcur.category, wcur.ai_result), TRUE)
                 /\ WFinish(wcur, "recorded", wcur.dest_path, {})
            [] result = "db_error" ->
                 /\ insert_file(Row(nextId, wcur.dest_path, wcur.file_path, wcur.mime_type,
                                    wcur.category, wcur.ai_result), FALSE)
                 /\ WFinish([wcur EXCEPT !.fault = "db"], "unrecorded", wcur.dest_path,
                            {Msg("db_failed", wcur.file_path.name, 0)})
            [] result = "size_error" ->
                 /\ UNCHANGED <<db, nextId, unclosed>>
                 /\ WFinish([wcur EXCEPT !.fault = "size"], RecordErrorOutcome,
                            RecordErrorReturn(wcur.dest_path), {})
    /\ UNCHANGED <<fs, dirs, now, moves, wfixed, models>>

\* FileWatcher.stop, line 92: observer.stop() tells the threads to end
Stop ==
    /\ watching = "on"
    /\ watching' = "stopping"
    /\ UNCHANGED <<fs, dirs, now, db, nextId, log, organized_dir, threshold, use_ai,
                   batch, held, moves, vanished, queue, wpc, wev, wcur, handled, created, search>>

\* stop() without the join
JoinedAtOnce(position) == TRUE

\* line 93: observer.join() returns once the dispatch thread has ended, and
\* it ends when it is back from the handler it was in
Joined(position) == position \in {"idle", "crashed"}

\* lines 93-94: the events still queued are left
Join ==
    /\ watching = "stopping"
    /\ Joined(wpc)
    /\ watching' = "stopped"
    /\ log' = log \cup {Msg("watcher_stopped", NoName, 0)}
    /\ UNCHANGED <<fs, dirs, now, db, nextId, organized_dir, threshold, use_ai,
                   batch, held, moves, vanished, queue, wpc, wev, wcur, handled, created, search>>

\* ----------------------------------------------------------- search command
\* the methods class FileDatabase defines
FileDatabaseMethods == {"__init__", "init_database", "insert_file", "get_stats"}

\* sys.argv[1:] joined
Queries == {"a", "cat", "Others"}

\* scripts/search.py lines 16-32, run once the organizer is through: the
\* store opens, and the lookup of db.search raises AttributeError when the
\* class has no such method
SearchCommand ==
    /\ pc = "done"
    /\ search = NoSearch
    /\ \E query \in Queries :
          search' = Searched(query,
                             IF "search" \in FileDatabaseMethods
                             THEN "called" ELSE "AttributeError",
                             {})
    /\ UNCHANGED <<fs, dirs, now, db, nextId, log, organized_dir, threshold, use_ai, batch, held,
                   moves, vanished, watching, queue, wpc, wev, wcur, handled, created>>

\* database.py 92-121, called between two runs of the organizer: the counts
\* are read and conn.close() is reached, or the files table is missing and
\* line 100 returns, or sqlite raises and the except clause returns; a table
\* that holds rows is not missing
GetStats ==
    /\ pc \in {"idle", "done"}
    /\ \E outcome \in {"ok", "no_table", "error"} :
          /\ outcome = "no_table" => db = {}
          /\ unclosed' = IF outcome = "ok" THEN unclosed ELSE unclosed \cup {"get_stats"}
          /\ log' = IF outcome = "error"
                    THEN log \cup {Msg("stats_failed", NoName, 0)} ELSE log
    /\ UNCHANGED <<fs, dirs, now, db, nextId, organized_dir, threshold, use_ai, batch,
                   models, moves, vanished, aside>>

Watch(max_events, kinds) ==
    \/ Start
    \/ Create(max_events, kinds)
    \/ Withdraw
    \/ Dispatch
    \/ Wake
    \/ W_ProbeExists
    \/ W_ProbeOpen
    \/ W_Classify
    \/ W_Resolve
    \/ W_Move
    \/ W_Record
    \/ Stop
    \/ Join

Next ==
    \/ Walk
    \/ LoopNext
    \/ LoopEnd
    \/ ProbeExists
    \/ ProbeOpen
    \/ Classify
    \/ Resolve
    \/ Move
    \/ Record
    \/ Vanish
    \/ Tick

Spec == Init /\ [][Next]_vars

SpecAi == InitAi /\ [][Next]_vars

SpecRerun == InitRerun /\ [][Next]_vars

SpecLookup == InitLookup /\ [][Next]_vars

SpecLoad == InitLoad /\ [][Next]_vars

SpecRoute == InitRoute /\ [][Next]_vars

\* the steps of the script itself, which its one thread keeps taking
Program ==
    \/ Walk
    \/ LoopNext
    \/ LoopEnd
    \/ ProbeExists
    \/ ProbeOpen
    \/ Classify
    \/ Resolve
    \/ Move
    \/ Record

SpecLive == InitLive /\ [][Next]_vars /\ WF_vars(Program)

\* the batch run with no file deleted under it
NextDocs ==
    \/ Walk
    \/ LoopNext
    \/ LoopEnd
    \/ ProbeExists
    \/ ProbeOpen
    \/ Classify
    \/ Resolve
    \/ Move
    \/ Record
    \/ Tick

SpecDocs == InitDocs /\ [][NextDocs]_vars

\* scripts/organize.py, then scripts/search.py
NextSearch == Next \/ SearchCommand

SpecSearch == InitLookup /\ [][NextSearch]_vars

\* scripts/organize.py, and the statistics of the store read
NextStats == Next \/ GetStats

SpecStats == InitLookup /\ [][NextStats]_vars

\* the watcher alone, on a root that holds no loose file
InitWatch ==
    InitWith({<<"o">>}, {DefaultThreshold}, {FALSE}, {<<>>}, 0, {"off"})

NextWatch == Watch(MaxEvents, WatchKinds)

SpecWatch == InitWatch /\ [][NextWatch]_vars

\* the watcher under either setting of use_ai, and pictures created
WatchAiKinds == { Kind(MkName("a", "jpg"), Mime("image", "jpeg")) }

InitWatchAi ==
    InitWith({<<"o">>}, {DefaultThreshold}, BOOLEAN, {<<>>}, 0, {"off"})

NextWatchAi == Watch(MaxEvents, WatchAiKinds)

SpecWatchAi == InitWatchAi /\ [][NextWatchAi]_vars

\* scripts/organize.py and scripts/watch.py at work on the same root
InitBoth ==
    InitWith({<<"o">>}, {DefaultThreshold}, {FALSE}, Layouts(PlainKinds, MaxBothFiles), 1,
             {"off"})

NextBoth == Next \/ Watch(MaxBothEvents, WatchKinds)

SpecBoth == InitBoth /\ [][NextBoth]_vars

\* one of the two scripts at work: the batch run, or the watcher
InitEither ==
    \/ InitWith({<<"o">>}, {DefaultThreshold}, {FALSE}, Layouts(PlainKinds, MaxEitherFiles),
                1, {"none"})
    \/ InitWatch

NextEither == Next \/ Watch(MaxEvents, WatchKinds)

SpecEither == InitEither /\ [][NextEither]_vars


\* ------------------------------------------------------------------ claims
\* no organize_file call is running: the file system is as the last call left it
AtRest == pc \in {"loop", "done"}

Moved(p) == \E m \in moves : m.src = p

Indexed(p) == \E r \in db : r.original_path = p

\* the files that lie in a category folder of the output root
OrganizedFiles ==
    { p \in DOMAIN fs :
        /\ IsPrefix(organized_dir, p.dir)
        /\ RelativeTo(p.dir, organized_dir) # <<>>
        /\ RelativeTo(p.dir, organized_dir)[1] \in category_folders }

\* the moves of one run that took files of one name into one folder
SameNameMoves(m) ==
    { k \in moves : /\ k.run = m.run
                    /\ k.src.name = m.src.name
                    /\ k.dst.dir = m.dst.dir }

\* C1: when exactly two files of the same name were moved into the same
\* folder in one run, both contents are still there under different names,
\* the first under the plain name and the second under a stamped one.
C1_BothRetained ==
    \A m1 \in moves : \A m2 \in SameNameMoves(m1) :
        (m1.seq < m2.seq /\ Cardinality(SameNameMoves(m1)) = 2) =>
            /\ m1.dst # m2.dst
            /\ Exists(m1.dst) /\ fs[m1.dst].id = m1.id
            /\ Exists(m2.dst) /\ fs[m2.dst].id = m2.id
            /\ m1.dst.name = m1.src.name
            /\ \E t \in 0..now : m2.dst.name = Stamped(m2.src.name, t)

C1_Witness ==
    \E m1 \in moves : \E m2 \in SameNameMoves(m1) :
        /\ m1.seq < m2.seq
        /\ m1.id # m2.id
        /\ Cardinality(SameNameMoves(m1)) = 2
        /\ pc = "done"

\* C2 (as claimed): no move replaces a file that is already organized, so
\* the category folders hold as many files as moves have succeeded.
C2_NoMoveReplaces == Cardinality(OrganizedFiles) = Cardinality(moves)

\* C3 (as claimed): when a run moved every file it found, the next run
\* finds no file.
C3_RerunFindsNothing == (run >= 2 /\ prev_all_moved) => found = 0


\* the last call moved its file with AI applied
AiMoved == AtRest /\ last.ret # NoPath /\ last.frame.should_use_ai

LabelFolder(frame) == organized_dir \o <<frame.category, frame.ai_result.label>>

CategoryFolder(frame) == organized_dir \o <<frame.category>>

Holds(p, id) == Exists(p) /\ fs[p].id = id

\* C4: with AI applied, a file of a category other than Documents lies in
\* {root}/{category}/{label} exactly when confidence >= threshold and in
\* {root}/{category} otherwise; a Documents file lies in
\* {root}/Documents/{label} whatever the confidence.
C4_ThresholdRule ==
    AiMoved =>
        /\ Holds(last.ret, last.frame.id)
        /\ IF last.frame.category = "Documents"
           THEN last.ret.dir = LabelFolder(last.frame)
           ELSE /\ (last.ret.dir = LabelFolder(last.frame))
                      <=> (last.frame.ai_result.confidence >= threshold)
                /\ (last.ret.dir = CategoryFolder(last.frame))
                      <=> (last.frame.ai_result.confidence < threshold)

C4_Witness ==
    /\ AiMoved
    /\ last.frame.category # "Documents"
    /\ threshold > 0
    /\ last.frame.ai_result.confidence = threshold
    /\ last.ret.dir = LabelFolder(last.frame)

\* the classifier call of the last call failed: it raised or returned one of
\* its failure values
AiFailed == AiMoved /\ last.frame.ai_result.kind \in {"raise", "sentinel"}

C6_VanishedFileIsDropped ==
    (AtRest /\ last.frame.gone /\ last.frame.fault = "none") =>
        /\ last.outcome \in {"vanished", "skipped", "failed"}
        /\ last.ret = NoPath
        /\ ~Moved(last.frame.file_path)
        /\ ~Indexed(last.frame.file_path)

\* the file was deleted after the probe had opened it
C6_Witness ==
    /\ AtRest
    /\ last.frame.gone
    /\ last.frame.fault = "none"
    /\ last.frame.retries > 0
    /\ last.outcome = "failed"

\* C7: a call makes at most ProbeRetries probes; when all of them fail it
\* goes no further than the probe and ends skipped: nothing returned, moved
\* or indexed, the skip reported, the file left where it is.
C7_LockedFileIsSkipped ==
    /\ cur.probes <= ProbeRetries
    /\ pc \in {"classify", "resolve", "move", "record"} => cur.retries > 0
    /\ (AtRest /\ last.outcome = "skipped") =>
          /\ last.frame.probes = ProbeRetries
          /\ last.frame.retries = 0
          /\ last.ret = NoPath
          /\ ~Moved(last.frame.file_path)
          /\ ~Indexed(last.frame.file_path)
          /\ Msg("skipped_locked", last.frame.file_path.name, 0) \in log
          /\ ~last.frame.gone => Holds(last.frame.file_path, last.frame.id)

C7_Witness ==
    /\ AtRest
    /\ last.outcome = "skipped"
    /\ ~last.frame.gone
    /\ files # {}

\* C8: when the index write fails after the move, the call still returns the
\* destination path, the file is there and its source is gone.
C8_IndexFailureKeepsMove ==
    (AtRest /\ last.frame.fault \in {"db", "size"}) =>
        /\ last.outcome = "unrecorded"
        /\ last.ret # NoPath
        /\ last.ret = last.frame.dest_path
        /\ Holds(last.ret, last.frame.id)
        /\ ~Exists(last.frame.file_path)

C8_Witness ==
    /\ AtRest
    /\ last.frame.fault = "size"
    /\ last.ret = last.frame.dest_path
    /\ db = {}

\* C9: when shutil.move fails, the call ends failed after that one attempt:
\* nothing returned or indexed, the source still in place, and the failure
\* reported with the file name.
C9_MoveFailureIsFinal ==
    (AtRest /\ last.frame.fault = "move") =>
        /\ last.outcome = "failed"
        /\ last.ret = NoPath
        /\ last.frame.move_calls = 1
        /\ Holds(last.frame.file_path, last.frame.id)
        /\ ~Moved(last.frame.file_path)
        /\ ~Indexed(last.frame.file_path)
        /\ Msg("move_failed", last.frame.file_path.name, 0) \in log

C9_Witness ==
    /\ AtRest
    /\ last.frame.fault = "move"
    /\ last.outcome = "failed"
    /\ Exists(last.frame.file_path)

UniquePaths == \A r1, r2 \in db : r1.file_path = r2.file_path => r1 = r2

\* a change of the table is the upsert of the running call's record
UpsertStep ==
    db' # db =>
        /\ \A r \in db : r.file_path # cur.dest_path => r \in db'
        /\ \A r \in db' : r.file_path # cur.dest_path => r \in db
        /\ \A r \in db' : r.file_path = cur.dest_path =>
              r = Row(nextId, cur.dest_path, cur.file_path, cur.mime_type,
                      cur.category, cur.ai_result)
        /\ \E r \in db' : r.file_path = cur.dest_path

\* C10: the index never holds two records of one destination path, and an
\* insert for a path replaces the record of that path by the new call's
\* values and leaves the records of the other paths as they are.
C10_UpsertByPath == [](UniquePaths) /\ [][UpsertStep]_vars

\* a record has been replaced: more inserts have committed than rows exist
C10_Witness == Cardinality(db) < nextId - 1 /\ UniquePaths

\* ---------------------------------------------------------- claims 11-20
\* an organize_file call that ended without a path: skipped, failed or raised
Failure(outcome) == outcome \in {"vanished", "skipped", "failed", "raised"}

\* the events on_created called organize_file for
Begun == { h \in handled : h.ev.begun # -1 }

\* C11: a failure never stops processing.  organize_all ends only when every
\* discovered file has been passed to organize_file; the dispatch thread of
\* the watcher survives every failure, and while the watcher is on every
\* queued event gets handled.
C11_FailureNeverStops ==
    /\ pc = "done" => files = {}
    /\ (AtRest /\ Failure(last.outcome) /\ files # {}) => pc = "loop"
    /\ wpc # "crashed"
    /\ (watching = "on" /\ wpc = "idle" /\ queue = <<>>) => Cardinality(handled) = created

\* an event whose call failed, and a later event whose file was organized
C11_Witness ==
    \E h1, h2 \in Begun :
        /\ Failure(h1.outcome)
        /\ h1.ev.begun < h2.ev.begun
        /\ h2.ret # NoPath
        /\ Holds(h2.ret, h2.frame.id)

\* C12 (as claimed): at the end of organize_all every discovered file is in
\* one of the counts the run keeps (the code keeps success_count and
\* error_count and no count of skipped files), so the counts add up to the
\* number of discovered files.
C12_EveryFileCounted ==
    (pc = "done" /\ run > 0 /\ found > 0) => success_count + error_count = found

\* C13 (as claimed): organize_file is called for an event one debounce
\* interval after the event, whatever other events are being handled.
C13_IndependentDebounce ==
    /\ wev.begun # -1 => wev.begun = wev.at + Debounce
    /\ \A h \in Begun : h.ev.begun = h.ev.at + Debounce

\* C14 (as claimed): once stop() has been called, organize_file is not called
\* for an event whose debounce wait was pending; its file stays where it was
\* created.
C14_StopCancelsPending ==
    /\ ~wev.late
    /\ \A h \in handled : ~h.ev.late

\* the debounce sleep ends for an event whose file is gone
DropStep ==
    (wpc = "debounce" /\ ~Exists(wev.path) /\ wpc' # wpc) =>
        /\ wpc' = "idle"
        /\ wcur' = NoFrame
        /\ handled' = handled \cup {Handled(wev, "dropped", NoPath, NoFrame)}
        /\ UNCHANGED <<fs, dirs, db, nextId, log, moves>>

\* C15: when the file of a create event no longer exists at the end of the
\* debounce sleep, on_created returns at once: organize_file is not called,
\* nothing is moved, no index record is written and nothing is printed.
C15_GoneFileIsDropped == [][DropStep]_vars

\* an event was dropped, and the next one has been taken up
C15_Witness ==
    /\ \E h \in handled : h.outcome = "dropped" /\ h.ev.begun = -1
    /\ wpc = "debounce"
    /\ log = {Msg("watching", NoName, 0)}

\* C16 (as claimed): two organize_file executions that take files of one
\* name into one folder never both hold the same resolved destination, and
\* both files are retained under different names.
C16_BothRetained ==
    /\ ~(pc = "move" /\ wpc = "w_move" /\ cur.id # wcur.id
           /\ cur.dest_path = wcur.dest_path)
    /\ \A m1, m2 \in moves :
          (m1.id # m2.id /\ m1.src.name = m2.src.name /\ m1.dst.dir = m2.dst.dir) =>
              /\ m1.dst # m2.dst
              /\ Holds(m1.dst, m1.id)
              /\ Holds(m2.dst, m2.id)

\* what classify_with_ai gave a call that used it
Returned(frame) ==
    /\ frame.ai_result.label # ""
    /\ frame.ai_result.confidence \in 0..100
    /\ frame.ai_result.kind \in {"raise", "nomatch"} =>
          /\ frame.ai_result.label = "unknown"
          /\ frame.ai_result.confidence = 0

\* C17: classify_with_ai always returns a label and a confidence, for every
\* MIME type and whatever the classifier does; they are "unknown" and 0.0
\* when no capability matches or the capability raises; no exception of a
\* classifier leaves the call.
C17_RouterAbsorbs ==
    /\ (pc \in {"resolve", "move", "record"} /\ cur.should_use_ai) => Returned(cur)
    /\ (AtRest /\ last.frame.should_use_ai) =>
          /\ Returned(last.frame)
          /\ last.outcome = "raised" => last.frame.fault = "mkdir"

\* a file of an AI category whose content no capability takes
C17_Witness ==
    /\ AtRest
    /\ last.frame.should_use_ai
    /\ last.frame.ai_result.kind = "nomatch"
    /\ last.frame.ai_result.label = "unknown"
    /\ last.ret # NoPath

\* the category the configuration gives an extension, written out
Configured(ext) ==
    CASE ext \in {"jpg", "JPG"} -> "Images"
      [] ext \in {"mp4"} -> "Videos"
      [] ext \in {"pdf", "PDF"} -> "Documents"
      [] ext \in {"mp3"} -> "Audio"
      [] OTHER -> "Others"

\* C18: every call finds exactly one category for its file, the one the
\* configuration lists the extension under, in whatever case the extension is
\* written, and "Others" for an extension that is not listed or missing.
C18_CategoryLookup ==
    /\ pc \in {"resolve", "move", "record"} =>
          cur.category = Configured(cur.file_path.name.ext)
    /\ (AtRest /\ last.frame.category # "") =>
          last.frame.category = Configured(last.frame.file_path.name.ext)

C18_Witness ==
    /\ AtRest
    /\ last.frame.file_path.name.ext = "JPG"
    /\ last.frame.category = "Images"
    /\ last.ret # NoPath

\* the last call moved its file, and AI was disabled or does not apply to
\* the category of the file
PlainMoved ==
    /\ AtRest
    /\ last.ret # NoPath
    /\ ~use_ai \/ last.frame.category \notin {"Images", "Videos", "Documents", "Audio"}

\* C19: such a call returns a path that exists and lies directly in
\* {root}/{category}; no classifier was called and no folder was made below
\* the category folder.
C19_PlainDestination ==
    PlainMoved =>
        /\ Holds(last.ret, last.frame.id)
        /\ last.ret.dir = organized_dir \o <<last.frame.category>>
        /\ last.frame.ai_result = NotClassified
        /\ Msg("ai_error", last.frame.file_path.name, 0) \notin log
        /\ \A d \in dirs :
              IsPrefix(organized_dir \o <<last.frame.category>>, d) =>
                  d = organized_dir \o <<last.frame.category>>

\* AI is enabled and the content is an image, but the extension is not one
\* of an AI category
C19_Witness ==
    /\ PlainMoved
    /\ use_ai
    /\ last.frame.category = "Others"
    /\ is_image(last.frame.mime_type)
    /\ last.ret.dir = organized_dir \o <<"Others">>

\* the record's label, category or path holds the query
Matches(r, query) ==
    \/ query = r.ai_label
    \/ query = r.category
    \/ query = r.file_path.name.stem
    \/ \E i \in DOMAIN r.file_path.dir : query = r.file_path.dir[i]

\* C20 (as claimed): the search command, run on a store that holds records,
\* ends without error and has got exactly the records whose label, category
\* or path holds the query.
C20_SearchReturnsMatches ==
    (search # NoSearch /\ db # {}) =>
        /\ search.outcome \notin {"AttributeError"}
        /\ search.rows = { r \in db : Matches(r, search.query) }


\* ------------------------------------------------------------ claims 21-30
\* C21: a missing model asset makes load_model raise and leaves the classifier
\* not loaded, and the error is raised once: after the first failed load no
\* later classify call of that classifier attempts the load again
C21_LoadRaisedOnce == \A c \in Loaders : load_errors[c] <= 1

\* C22: the waits of the probe phase between successive attempts on a locked
\* file are strictly increasing
Increasing(waits) == \A i \in 1..(Len(waits) - 1) : waits[i] < waits[i + 1]

C22_WaitsIncrease ==
    /\ Increasing(cur.waits)
    /\ Increasing(last.frame.waits)

\* C23: classify_with_ai sends a file to one classifier, chosen by the MIME
\* predicates in the order image, video, audio, document, the document
\* classifier also when the category by extension is Documents; a file with
\* an audio MIME type always goes to the audio classifier
ByPriority(mime_type, category) ==
    IF is_image(mime_type) THEN "image"
    ELSE IF is_video(mime_type) THEN "video"
    ELSE IF is_audio(mime_type) THEN "audio"
    ELSE IF is_document(mime_type) \/ category = "Documents" THEN "document"
    ELSE "none"

C23_PriorityOrder ==
    \A f \in {cur, last.frame} :
        f.should_use_ai => f.capability = ByPriority(f.mime_type, f.category)

\* the names of the folders that lie directly in {root}/Documents
DocSubfolders(ds, root) ==
    { d[Len(d)] : d \in { e \in ds : /\ Len(e) = Len(root) + 2
                                      /\ SubSeq(e, 1, Len(root) + 1) = root \o <<"Documents">> } }

\* the frame of the call whose classification this step does
ClassifiedFrame == IF pc' = "resolve" THEN cur' ELSE last'.frame

\* the folders under {root}/Documents that moves of this batch went to
DocFoldersMovedTo ==
    DocSubfolders({ mv.dst.dir : mv \in { x \in moves : x.run = run } }, organized_dir)

\* C24: the folder names passed to the document classifier are the subfolders
\* of {root}/Documents at the moment of the call; a subfolder made by the move
\* of an earlier file of the batch is in the context of every later call
C24_ContextIsCurrent ==
    [][(pc = "classify" /\ pc' # "classify" /\ ClassifiedFrame.capability = "document")
         => /\ ClassifiedFrame.existing_folders = DocSubfolders(dirs, organized_dir)
            /\ DocFoldersMovedTo \subseteq ClassifiedFrame.existing_folders]_vars

C24_Witness ==
    /\ pc = "resolve"
    /\ cur.capability = "document"
    /\ "Report" \in DocFoldersMovedTo
    /\ "Report" \in cur.existing_folders
    /\ cur.ai_result = Result("Report", MergeScore, "ok")

\* C25: every operation of the index store (init_database, insert_file,
\* get_stats) releases the connection it opened before it returns, on every
\* path, the early return for a missing table and the exception paths
\* included: between operations, and during the sleeps of the probe phase, no
\* connection to the index is open
C25_ConnectionsReleased == unclosed = {}

\* C26: every label used as a destination subfolder, whichever classifier
\* gave it, has had the illegal path characters stripped and is title-cased
\* before the folder is made
C26_LabelsAreCleaned ==
    \A f \in {cur, last.frame} :
        (f.should_use_ai /\ f.dest_folder = LabelFolder(f))
            => clean_filename(f.ai_result.label) = f.ai_result.label

\* the move of an organize_file call of the watcher has begun and the call
\* has not ended
MoveInFlight == wpc \in {"w_move", "w_record"}

\* C27: FileWatcher.stop does not return while a move the handler began is in
\* flight; when it has returned every organize_file call of the watcher has
\* ended, and no file is left half moved: a file that was moved lies at the
\* path the call returned and no longer at its source
C27_StopJoinsMove ==
    watching = "stopped" =>
        /\ ~MoveInFlight
        /\ wpc = "idle" /\ wcur = NoFrame
        /\ \A h \in handled :
              h.ev.begun >= 0 =>
                  /\ h.outcome \in {"vanished", "skipped", "raised", "failed", "recorded",
                                    "unrecorded"}
                  /\ h.frame.move_calls > 0 /\ h.outcome # "failed"
                        => /\ Holds(h.ret, h.frame.id)
                           /\ ~Exists(h.frame.file_path)

\* stop() was called before the handler's organize_file call began, and
\* returned after that call had moved and recorded the file
C27_Witness ==
    /\ watching = "stopped"
    /\ \E h \in handled : /\ h.ev.late
                           /\ h.outcome = "recorded"
                           /\ Holds(h.ret, h.frame.id)

\* the ends of an organize_file call: the file recorded; moved but not
\* recorded; skipped, because it vanished or stayed locked; failed, with
\* None returned or an exception raised
Ends == {"recorded", "unrecorded", "vanished", "skipped", "failed", "raised"}

\* C28: every organize_file call comes to one end, whatever the file system
\* does: the probe loop makes a bounded number of attempts and no wait is
\* without end
C28_CallEnds ==
    /\ InCall ~> AtRest
    /\ [](InCall => cur.probes <= ProbeRetries /\ Len(cur.waits) <= ProbeRetries)
    /\ [][(InCall /\ ~InCall') => (last'.outcome \in Ends /\ last'.frame.id = cur.id)]_vars

\* a call that waited twice for a locked file and then recorded it
C28_Witness ==
    /\ AtRest
    /\ last.outcome = "recorded"
    /\ last.frame.waits = <<ProbeWait(1), ProbeWait(2)>>
    /\ last.frame.probes = ProbeRetries

\* the classifier ended on a failure path: it raised, gave a failure value,
\* or gave up on a locked file
FailurePath(r) == r.kind \in {"raise", "sentinel", "locked"}

\* C29: on every failure path of every classifier (model unavailable, file
\* vanished, file locked after all retries, content unreadable or corrupt)
\* the result carries a sentinel label and confidence exactly 0.0
C29_FailureIsZero ==
    \A f \in {cur, last.frame} :
        (f.should_use_ai /\ FailurePath(f.ai_result)) => f.ai_result.confidence = 0

\* the engine's own output: the index file, and what lies in a category
\* folder of the output root
InOutput(p) ==
    \/ p = MkPath(organized_dir, DbName)
    \/ /\ IsPrefix(organized_dir, p.dir)
       /\ RelativeTo(p.dir, organized_dir) # <<>>
       /\ RelativeTo(p.dir, organized_dir)[1] \in category_folders

\* C30: with the output root inside the watched root, neither the batch walk
\* nor the watch handler moves or indexes the engine's own output:
\* file_index.db and every file already in a category folder stay where they
\* are and get no index record
C30_OutputLeftAlone ==
    /\ \A mv \in moves : ~InOutput(mv.src)
    /\ \A r \in db : ~InOutput(r.original_path)
    /\ Exists(MkPath(organized_dir, DbName))


\* ------------------------------------------------------------ claims 31-32
\* the organize_file calls of the watcher: the one at work, and those ended
WatchFrames == {wcur} \cup { h.frame : h \in handled }

\* C31: in watch mode the use_ai flag of the configuration decides whether
\* classification runs: with the flag off no classifier is called for any
\* create event and every file lands directly in {root}/{category}
C31_WatchHonoursFlag ==
    ~use_ai =>
        /\ \A f \in WatchFrames : ~f.should_use_ai /\ f.capability = "none"
        /\ \A h \in handled : h.ret # NoPath => h.ret.dir = CategoryFolder(h.frame)

\* a move that was done took the file of the record from its original path
\* to the key of the record
MovedFor(r) == \E mv \in moves : mv.dst = r.file_path /\ mv.src = r.original_path

\* C32: every index record corresponds to a completed move: its key is a path
\* a file was moved to, its original path that file's source, its category
\* the category of the file's extension, its label and confidence the
\* classifier's result for the file, or not_classified and 0.0 when AI was
\* not applied, also when the label was not used for the folder
C32_RecordsMatchMoves ==
    /\ [](\A r \in db : /\ MovedFor(r)
                         /\ r.category = Configured(r.original_path.name.ext))
    /\ [][db' # db =>
            \E r \in db' \ db :
                /\ cur.move_calls > 0
                /\ r.file_path = cur.dest_path
                /\ r.original_path = cur.file_path
                /\ r.ai_label = cur.ai_result.label
                /\ r.confidence = cur.ai_result.confidence
                /\ ~cur.should_use_ai =>
                      (r.ai_label = "not_classified" /\ r.confidence = 0)]_vars

\* the record of a picture whose label was too uncertain for a folder
C32_Witness ==
    \E r \in db :
        /\ r.ai_label = "cat"
        /\ r.confidence < threshold
        /\ r.file_path.dir = organized_dir \o <<"Images">>
        /\ Exists(r.file_path)

====
